---- MODULE Spec2Model ----
(***************************************************************************)
(* StorageDistributed (dbms/src/Storages/StorageDistributed.cpp): the      *)
(* distributed table engine.  The model covers construction of the table   *)
(* (write_enabled, the startup scan that creates the directory monitors),  *)
(* read(), write(), requireDirectoryMonitor(), alter(), describe(),        *)
(* shutdown() and the client side of reshardPartitions() together with the *)
(* coordination record it drives, a reader of the schema that takes the    *)
(* structure lock, and the output stream's choice of a shard for a batch.  *)
(***************************************************************************)
EXTENDS Integers, Sequences, FiniteSets, TLC

(***************************************************************************)
(* Bounds of the model.                                                    *)
(***************************************************************************)
MaxLocalShards == 1
MaxRemoteShards == 1
MaxParallelReplicas == 2
NumDirNames == 2
MaxBatches == 1
NumWriters == 2
MaxCommands == 2
MaxWeightedShards == 3
MaxWeight == 2
MaxKey == 7
NumCoordinatorIds == 2

DirNames == 1..NumDirNames
Writers == 1..NumWriters
ColumnNames == {"c1", "c2"}
CoordinatorIds == 1..NumCoordinatorIds

VARIABLES
    \* constructor arguments and the file system found at startup
    cluster,             \* [local, remote]: cluster.getLocalShardCount(), getRemoteShardCount()
    sharding_key,        \* sharding_key_ is non-null
    data_path,           \* data_path_ is non-empty
    fs,                  \* entry of each name in the table's directory: "none", "file", "dir"
    batches,             \* pending batch files in each subdirectory
    \* the table object
    constructed,
    write_enabled,
    directory_monitors,  \* keys of the map directory_monitors
    monitors_alive,      \* live DirectoryMonitor objects (each owns a sender thread), per name
    writers,             \* concurrent INSERTs: position, shard directory name, rewritten query
    result,              \* outcome of the last read / describe / alter / shutdown
    \* alter()
    columns, metadata, structure_lock, alter_pc,
    \* reshardPartitions() and the coordination record of the resharding worker
    request,             \* arguments of the call and its local coordinator_id
    rpc,                 \* position of the client inside reshardPartitions
    coord,               \* the coordinator record: [exists, status, query, id]
    calls,               \* calls made on the resharding worker and the cluster, per function,
                         \* and the coordinator ids passed to the worker
    error_writes,        \* setStatus(STATUS_ERROR) calls that returned normally
    has_notified_error,
    dumped,              \* dumped_coordinator_state has been assigned
    raised,              \* the exception raised inside reshardPartitions ("none" if none)
    inflight,            \* the exception currently propagating / delivered to the caller
    shard,               \* state of each shard's stream of the dispatched ALTER
    stream               \* the union stream: [opened, closed, cancelled]

configVars == <<cluster, sharding_key, data_path>>
diskVars == <<fs, batches>>
monitorVars == <<directory_monitors, monitors_alive>>
alterVars == <<columns, metadata, structure_lock, alter_pc>>
tableVars == <<constructed, write_enabled, monitorVars, writers, result, alterVars>>
reshardVars == <<request, rpc, coord, calls, error_writes, has_notified_error, dumped, raised,
                 inflight, shard, stream>>
vars == <<configVars, diskVars, tableVars, reshardVars>>

TotalShards == cluster.local + cluster.remote

(***************************************************************************)
(* Statements.  A statement is a record of its parts.  A SELECT names its  *)
(* database and table by identifier nodes (absent when not written), an    *)
(* INSERT by bare strings.  The rewriting functions yield the statement    *)
(* the caller passed as it stands after the call (query) together with the *)
(* statement returned (modified_query_ast).                                *)
(***************************************************************************)
Identifier(name, kind) == [name |-> name, kind |-> kind]
NullIdentifier == [name |-> "", kind |-> "null"]

SelectQueries ==
    {[kind |-> "select", database |-> d, table |-> Identifier("dist", "Table"),
      columns |-> "x", where |-> w] :
        d \in {NullIdentifier, Identifier("default", "Database")},
        w \in {"none", "x > 1"}}

InsertQueries ==
    {[kind |-> "insert", database |-> "default", table |-> "dist",
      columns |-> "x", select |-> s, data |-> "rows"] : s \in {"null", "subquery"}}

remote_database == "remote_db"
remote_table == "remote_tbl"

\* query->clone(): a new statement with the same parts.
clone(query) == query

\* A rewriting that skips clone() and changes the caller's statement.
rewriteInsertQueryInPlace(query, database, table) ==
    LET actual_query == [query EXCEPT !.database = database, !.table = table,
                                      !.select = "null"]
    IN  [query |-> actual_query, modified_query_ast |-> actual_query]

\* rewriteSelectQuery: clone, then replace the database and table identifiers
\* of the copy.
rewriteSelectQuery(query, database, table) ==
    [query |-> query,
     modified_query_ast |->
        [clone(query) EXCEPT !.database = Identifier(database, "Database"),
                             !.table = Identifier(table, "Table")]]

\* rewriteInsertQuery: clone, replace the names of the copy, drop its nested SELECT.
rewriteInsertQuery(query, database, table) ==
    [query |-> query,
     modified_query_ast |->
        [clone(query) EXCEPT !.database = database, !.table = table,
                             !.select = "null"]]

(***************************************************************************)
(* Construction.                                                           *)
(***************************************************************************)
\* A bug of the kind the write_enabled expression invites: the shard test off by one.
WriteEnabledOffByOne(path_set, local, remote, key) ==
    path_set /\ ((local + remote) <= 2 \/ key)

\* write_enabled(!data_path_.empty() && (((local + remote) < 2) || sharding_key_))
WriteEnabled(path_set, local, remote, key) ==
    path_set /\ ((local + remote) < 2 \/ key)

\* A scan that adopts only the subdirectories that hold a pending batch.
ScannedNamesNonEmptyOnly(path_set, entries, pending) ==
    IF ~path_set THEN {} ELSE {n \in DirNames : entries[n] = "dir" /\ pending[n] > 0}

\* createDirectoryMonitors: nothing without a path; otherwise every entry of
\* the directory that is a directory gets createDirectoryMonitor(it.name()).
ScannedNames(path_set, entries, pending) ==
    IF ~path_set THEN {} ELSE {n \in DirNames : entries[n] = "dir"}

NoResult == [op |-> "none", err |-> "none", stage |-> "none", mpr |-> 0,
             no_merge |-> FALSE, given |-> "none", input |-> "none", query |-> "none",
             params |-> <<>>, weights |-> <<>>, key |-> 0, shard |-> 0]

IdleWriter == [pc |-> "idle", name |-> 0, given |-> "none", input |-> "none",
               query |-> "none"]

InitConfig ==
    /\ cluster \in {c \in [local : 0..MaxLocalShards, remote : 0..MaxRemoteShards] :
                        c.local + c.remote >= 1}
    /\ sharding_key \in BOOLEAN
    /\ data_path \in BOOLEAN

\* Without a data path the table has no directory; with one, every name is
\* absent, a plain file, or a subdirectory with 0..MaxBatches pending batches.
InitDisk ==
    /\ fs \in [DirNames -> {"none", "file", "dir"}]
    /\ batches \in [DirNames -> 0..MaxBatches]
    /\ \A n \in DirNames : fs[n] # "dir" => batches[n] = 0
    /\ ~data_path => \A n \in DirNames : fs[n] = "none"

InitTable ==
    /\ constructed = FALSE
    /\ write_enabled = FALSE
    /\ directory_monitors = {}
    /\ monitors_alive = [n \in DirNames |-> 0]
    /\ writers = [w \in Writers |-> IdleWriter]
    /\ result = NoResult
    /\ columns = {"c1"}
    /\ metadata = {"c1"}
    /\ structure_lock = "free"
    /\ alter_pc = [pc |-> "idle", params |-> <<>>]

NoCalls == [createCoordinator |-> 0, registerQuery |-> 0, setStatus |-> 0,
            dumpCoordinatorState |-> 0, deleteCoordinator |-> 0, dispatch |-> 0,
            targets |-> {}]

NoCoordinator == [exists |-> FALSE, status |-> "NONE", query |-> FALSE, id |-> 0]

NoRequest == [started |-> TRUE, coordinator_null |-> TRUE, coordinator_id |-> 0]

InitReshard ==
    /\ request = NoRequest
    /\ rpc = "idle"
    /\ coord = NoCoordinator
    /\ calls = NoCalls
    /\ error_writes = 0
    /\ has_notified_error = FALSE
    /\ dumped = FALSE
    /\ raised = "none"
    /\ inflight = "none"
    /\ shard = <<>>
    /\ stream = [opened |-> FALSE, closed |-> FALSE, cancelled |-> FALSE]

Init == InitConfig /\ InitDisk /\ InitTable /\ InitReshard

\* The constructor: the member initialisers, then createDirectoryMonitors().
Construct ==
    /\ ~constructed
    /\ constructed' = TRUE
    /\ write_enabled' = WriteEnabled(data_path, cluster.local, cluster.remote, sharding_key)
    /\ directory_monitors' = ScannedNames(data_path, fs, batches)
    /\ monitors_alive' = [n \in DirNames |->
                             IF n \in ScannedNames(data_path, fs, batches) THEN 1 ELSE 0]
    /\ result' = [NoResult EXCEPT !.op = "construct"]
    /\ UNCHANGED <<configVars, diskVars, writers, alterVars, reshardVars>>

(***************************************************************************)
(* read()                                                                  *)
(***************************************************************************)
\* The stage chosen when the parallel-replica factor is left out of the count.
ProcessedStageNoReplicas(remote, local, max_parallel_replicas, no_merge) ==
    IF (remote + local) = 1 \/ no_merge THEN "Complete" ELSE "WithMergeableState"

\* result_size = remote * max_parallel_replicas + local;
\* processed_stage = result_size == 1 || distributed_group_by_no_merge ? Complete : WithMergeableState
ProcessedStage(remote, local, max_parallel_replicas, no_merge) ==
    LET result_size == (remote * max_parallel_replicas) + local
    IN  IF result_size = 1 \/ no_merge THEN "Complete" ELSE "WithMergeableState"

\* given is the statement passed in, input the caller's statement after the
\* call, query the statement sent to the shards.
Read(query, max_parallel_replicas, no_merge) ==
    /\ constructed
    /\ result' = [NoResult EXCEPT
                     !.op = "read",
                     !.stage = ProcessedStage(cluster.remote, cluster.local,
                                              max_parallel_replicas, no_merge),
                     !.mpr = max_parallel_replicas, !.no_merge = no_merge,
                     !.given = query,
                     !.input = rewriteSelectQuery(query, remote_database,
                                                  remote_table).query,
                     !.query = rewriteSelectQuery(query, remote_database,
                                                  remote_table).modified_query_ast]
    /\ UNCHANGED <<configVars, diskVars, constructed, write_enabled, monitorVars, writers,
                   alterVars, reshardVars>>

(***************************************************************************)
(* write() and the output stream's requireDirectoryMonitor()               *)
(***************************************************************************)
\* write(): throws STORAGE_REQUIRES_PARAMETER unless write_enabled, otherwise
\* returns the output stream over the rewritten INSERT.
Write(w, query) ==
    /\ constructed
    /\ writers[w].pc = "idle"
    /\ writers' = [writers EXCEPT ![w] =
           IF ~write_enabled
           THEN [IdleWriter EXCEPT !.pc = "STORAGE_REQUIRES_PARAMETER"]
           ELSE [pc |-> "stream", name |-> 0, given |-> query,
                 input |-> rewriteInsertQuery(query, remote_database,
                                              remote_table).query,
                 query |-> rewriteInsertQuery(query, remote_database,
                                              remote_table).modified_query_ast]]
    /\ UNCHANGED <<configVars, diskVars, constructed, write_enabled, monitorVars, result,
                   alterVars, reshardVars>>

\* requireDirectoryMonitor(name), first half: if (!directory_monitors.count(name)).
\* No lock is taken, so another thread may run between the test and the creation.
RequireCheck(w, n) ==
    /\ writers[w].pc = "stream"
    /\ writers' = [writers EXCEPT ![w].name = n,
                                  ![w].pc = IF n \in directory_monitors
                                            THEN "required" ELSE "creating"]
    /\ UNCHANGED <<configVars, diskVars, constructed, write_enabled, monitorVars, result,
                   alterVars, reshardVars>>

\* createDirectoryMonitor(name), the argument: std::make_unique<DirectoryMonitor>(*this, name).
MakeMonitor(w) ==
    /\ writers[w].pc = "creating"
    /\ monitors_alive' = [monitors_alive EXCEPT ![writers[w].name] = @ + 1]
    /\ writers' = [writers EXCEPT ![w].pc = "emplacing"]
    /\ UNCHANGED <<configVars, diskVars, constructed, write_enabled, directory_monitors,
                   result, alterVars, reshardVars>>

\* createDirectoryMonitor(name), directory_monitors.emplace: the new monitor is
\* kept when the key is absent and destroyed with the temporary otherwise.
Emplace(w) ==
    /\ writers[w].pc = "emplacing"
    /\ LET n == writers[w].name
       IN  IF n \in directory_monitors
           THEN /\ monitors_alive' = [monitors_alive EXCEPT ![n] = @ - 1]
                /\ UNCHANGED directory_monitors
           ELSE /\ directory_monitors' = directory_monitors \cup {n}
                /\ UNCHANGED monitors_alive
    /\ writers' = [writers EXCEPT ![w].pc = "required"]
    /\ UNCHANGED <<configVars, diskVars, constructed, write_enabled, result, alterVars,
                   reshardVars>>

(***************************************************************************)
(* shutdown(), describe()                                                  *)
(***************************************************************************)
\* A shutdown that also switches writes off.
ShutdownDisablesWrites ==
    /\ constructed
    /\ directory_monitors' = {}
    /\ monitors_alive' = [n \in DirNames |->
                             IF n \in directory_monitors THEN monitors_alive[n] - 1
                             ELSE monitors_alive[n]]
    /\ result' = [NoResult EXCEPT !.op = "shutdown"]
    /\ write_enabled' = FALSE
    /\ UNCHANGED <<configVars, diskVars, constructed, writers, alterVars, reshardVars>>

\* directory_monitors.clear(): every monitor the map owns is destroyed.
Shutdown ==
    /\ constructed
    /\ directory_monitors' = {}
    /\ monitors_alive' = [n \in DirNames |->
                             IF n \in directory_monitors THEN monitors_alive[n] - 1
                             ELSE monitors_alive[n]]
    /\ result' = [NoResult EXCEPT !.op = "shutdown"]
    /\ UNCHANGED <<configVars, diskVars, constructed, write_enabled, writers, alterVars,
                   reshardVars>>

\* describe(): a DESCRIBE TABLE of the remote table, sent to every shard.
Describe ==
    /\ constructed
    /\ result' = [NoResult EXCEPT !.op = "describe",
                     !.query = [kind |-> "describe", database |-> remote_database,
                                table |-> remote_table]]
    /\ UNCHANGED <<configVars, diskVars, constructed, write_enabled, monitorVars, writers,
                   alterVars, reshardVars>>

(***************************************************************************)
(* alter()                                                                 *)
(***************************************************************************)
AlterCommand ==
    [type : {"ADD_COLUMN", "DROP_COLUMN"}, column : ColumnNames]
        \cup {[type |-> "MODIFY_PRIMARY_KEY", column |-> "c1"]}

AlterCommands == UNION {[1..k -> AlterCommand] : k \in 1..MaxCommands}

\* AlterCommands::apply: the commands in order.
RECURSIVE ApplyCommands(_, _)
ApplyCommands(params, cols) ==
    IF params = <<>> THEN cols
    ELSE LET c == Head(params)
             next == IF c.type = "ADD_COLUMN" THEN cols \cup {c.column}
                     ELSE IF c.type = "DROP_COLUMN" THEN cols \ {c.column}
                     ELSE cols
         IN  ApplyCommands(Tail(params), next)

\* A validation that looks at the first command only.
FirstIsPrimaryKeyModification(params) ==
    params[1].type = "MODIFY_PRIMARY_KEY"

\* for (const auto & param : params) if (param.type == MODIFY_PRIMARY_KEY) throw ...
HasPrimaryKeyModification(params) ==
    \E i \in 1..Len(params) : params[i].type = "MODIFY_PRIMARY_KEY"

\* The loop over params: MODIFY_PRIMARY_KEY anywhere throws NOT_IMPLEMENTED
\* before the lock is taken.  The rejected list is kept with the outcome; a
\* call that gets past the loop has no outcome until it returns.
AlterValidate(params) ==
    /\ constructed
    /\ alter_pc.pc = "idle"
    /\ IF HasPrimaryKeyModification(params)
       THEN /\ result' = [NoResult EXCEPT !.op = "alter", !.err = "NOT_IMPLEMENTED",
                                          !.params = params]
            /\ UNCHANGED alter_pc
       ELSE /\ alter_pc' = [pc |-> "validated", params |-> params]
            /\ result' = [NoResult EXCEPT !.op = "altering"]
    /\ UNCHANGED <<configVars, diskVars, constructed, write_enabled, monitorVars, writers,
                   columns, metadata, structure_lock, reshardVars>>

\* An alter() that goes on without taking the structure lock.
AlterLockNotTaken ==
    /\ alter_pc.pc = "validated"
    /\ alter_pc' = [alter_pc EXCEPT !.pc = "locked"]
    /\ UNCHANGED <<configVars, diskVars, constructed, write_enabled, monitorVars, writers,
                   result, columns, metadata, structure_lock, reshardVars>>

\* auto lock = lockStructureForAlter();
AlterLock ==
    /\ alter_pc.pc = "validated"
    /\ structure_lock = "free"
    /\ structure_lock' = "alter"
    /\ alter_pc' = [alter_pc EXCEPT !.pc = "locked"]
    /\ UNCHANGED <<configVars, diskVars, constructed, write_enabled, monitorVars, writers,
                   result, columns, metadata, reshardVars>>

\* params.apply(*columns, materialized_columns, alias_columns, column_defaults):
\* the schema is changed command by command, so it goes through states in
\* which only a part of the list has been applied.
AlterApply ==
    /\ alter_pc.pc = "locked"
    /\ IF alter_pc.params = <<>>
       THEN /\ alter_pc' = [alter_pc EXCEPT !.pc = "applied"]
            /\ UNCHANGED columns
       ELSE /\ columns' = ApplyCommands(<<Head(alter_pc.params)>>, columns)
            /\ alter_pc' = [alter_pc EXCEPT !.params = Tail(@)]
    /\ UNCHANGED <<configVars, diskVars, constructed, write_enabled, monitorVars, writers,
                   result, metadata, structure_lock, reshardVars>>

\* context.getDatabase(database_name)->alterTable(...); the lock is released on return.
AlterPersist ==
    /\ alter_pc.pc = "applied"
    /\ metadata' = columns
    /\ structure_lock' = "free"
    /\ alter_pc' = [pc |-> "idle", params |-> <<>>]
    /\ result' = [NoResult EXCEPT !.op = "alter"]
    /\ UNCHANGED <<configVars, diskVars, constructed, write_enabled, monitorVars, writers,
                   columns, reshardVars>>

(***************************************************************************)
(* The output stream's choice of a shard for a batch.  Shards are numbered *)
(* from 0; weights[i + 1] is the weight of shard i.                        *)
(***************************************************************************)
ShardWeights == UNION {[1..n -> 1..MaxWeight] : n \in 1..MaxWeightedShards}

RECURSIVE SumWeights(_, _)
\* The sum of the weights of the first n shards.
SumWeights(weights, n) ==
    IF n = 0 THEN 0 ELSE SumWeights(weights, n - 1) + weights[n]

\* A choice that ignores the weights and goes round the shards.
chooseShardRoundRobin(weights, key) == key % Len(weights)

\* The key value is reduced modulo the total weight; the shard is the first
\* one whose cumulative weight exceeds the result.
chooseShard(weights, key) ==
    LET slot == key % SumWeights(weights, Len(weights))
    IN  CHOOSE s \in 0..(Len(weights) - 1) :
            /\ slot < SumWeights(weights, s + 1)
            /\ \A t \in 0..(s - 1) : slot >= SumWeights(weights, t + 1)

\* The output stream of a table with a sharding key routes one batch.
ChooseShard(weights, key) ==
    /\ constructed
    /\ sharding_key
    /\ result' = [NoResult EXCEPT !.op = "chooseShard", !.weights = weights, !.key = key,
                                  !.shard = chooseShard(weights, key)]
    /\ UNCHANGED <<configVars, diskVars, constructed, write_enabled, monitorVars, writers,
                   alterVars, reshardVars>>

RoutingNext ==
    \E weights \in ShardWeights, key \in 0..MaxKey : ChooseShard(weights, key)

ReadNext ==
    \/ \E q \in SelectQueries, m \in 0..MaxParallelReplicas, g \in BOOLEAN : Read(q, m, g)
    \/ Describe

WriteNext ==
    \E w \in Writers, q \in InsertQueries : Write(w, q)

MonitorNext ==
    \/ \E w \in Writers, n \in DirNames : RequireCheck(w, n)
    \/ \E w \in Writers : MakeMonitor(w)
    \/ \E w \in Writers : Emplace(w)
    \/ Shutdown

\* A reader of the schema takes the structure lock (shared with other
\* readers, exclusive against alter) before it looks at the columns.
ReaderLock ==
    /\ constructed
    /\ structure_lock = "free"
    /\ structure_lock' = "read"
    /\ UNCHANGED <<configVars, diskVars, constructed, write_enabled, monitorVars, writers,
                   result, columns, metadata, alter_pc, reshardVars>>

\* The reader is done and releases the lock.
ReaderUnlock ==
    /\ structure_lock = "read"
    /\ structure_lock' = "free"
    /\ UNCHANGED <<configVars, diskVars, constructed, write_enabled, monitorVars, writers,
                   result, columns, metadata, alter_pc, reshardVars>>

AlterNext ==
    \/ \E p \in AlterCommands : AlterValidate(p)
    \/ AlterLock
    \/ AlterApply
    \/ AlterPersist
    \/ ReaderLock
    \/ ReaderUnlock

(***************************************************************************)
(* reshardPartitions(): the client.  Every call on the resharding worker   *)
(* or the cluster either returns or throws; `ok` is that outcome.          *)
(***************************************************************************)
Bump(f) == [calls EXCEPT ![f] = @ + 1]

\* A call on the resharding worker that is passed the local coordinator_id.
Target(f) == [calls EXCEPT ![f] = @ + 1, !.targets = @ \cup {request.coordinator_id}]

\* The two checks in the opposite order.
StartCheckCoordinatorFirst(is_started, coordinator_is_null) ==
    IF ~coordinator_is_null THEN "RESHARDING_INVALID_PARAMETERS"
    ELSE IF ~is_started THEN "RESHARDING_NO_WORKER"
    ELSE "none"

\* The second check left out: a supplied coordinator is accepted.
StartCheckWorkerOnly(is_started, coordinator_is_null) ==
    IF ~is_started THEN "RESHARDING_NO_WORKER" ELSE "none"

\* if (!resharding_worker.isStarted()) throw RESHARDING_NO_WORKER;
\* if (!coordinator.isNull()) throw RESHARDING_INVALID_PARAMETERS;
StartCheck(is_started, coordinator_is_null) ==
    IF ~is_started THEN "RESHARDING_NO_WORKER"
    ELSE IF ~coordinator_is_null THEN "RESHARDING_INVALID_PARAMETERS"
    ELSE "none"

\* A handler that lets the failure of a cleanup call escape.
HandlerCatchNothing(current, cleanup_error) == cleanup_error

\* catch (...) { tryLogCurrentException(...); } inside handle_exception and
\* inside exception_callback: the failure of setStatus, dumpCoordinatorState
\* or deleteCoordinator is logged and dropped; the exception being handled stays.
HandlerCatch(current, cleanup_error) == current

\* A handler that never sets the status.
HandlerSetsStatusNever(notified) == FALSE

\* A handler that sets the status whatever the flag says.
HandlerSetsStatusAlways(notified) == TRUE

\* if (!has_notified_error) resharding_worker.setStatus(...STATUS_ERROR...)
HandlerSetsStatus(notified) == ~notified

\* A catch clause that swallows the exception instead of `throw;`.
RethrowSwallowed(current) == "none"

\* LOG_ERROR(log, dumped_coordinator_state); throw;
Rethrow(current) == current

\* The entry of reshardPartitions up to createCoordinator (outside the try);
\* id is the coordinator id the worker generates.
ReshardStart(is_started, coordinator_is_null, ok, id) ==
    /\ constructed
    /\ rpc = "idle"
    /\ request' = [started |-> is_started, coordinator_null |-> coordinator_is_null,
                   coordinator_id |->
                       IF StartCheck(is_started, coordinator_is_null) = "none" /\ ok
                       THEN id ELSE 0]
    /\ LET err == StartCheck(is_started, coordinator_is_null)
       IN  IF err # "none"
           THEN /\ rpc' = "thrown"
                /\ raised' = err
                /\ inflight' = err
                /\ UNCHANGED <<coord, calls>>
           ELSE /\ calls' = Bump("createCoordinator")
                /\ IF ok
                   THEN /\ coord' = [exists |-> TRUE, status |-> "CREATED", query |-> FALSE,
                                  id |-> id]
                        /\ rpc' = "try"
                        /\ UNCHANGED <<raised, inflight>>
                   ELSE /\ rpc' = "thrown"
                        /\ raised' = "createCoordinator"
                        /\ inflight' = "createCoordinator"
                        /\ UNCHANGED coord
    /\ UNCHANGED <<configVars, diskVars, tableVars, error_writes, has_notified_error,
                   dumped, shard, stream>>

\* Building the ALTER TABLE ... RESHARD ... COORDINATE WITH statement (allocations).
BuildQuery(ok) ==
    /\ rpc = "try"
    /\ IF ok
       THEN /\ rpc' = "built"
            /\ UNCHANGED <<raised, inflight>>
       ELSE /\ rpc' = "catch"
            /\ raised' = "build"
            /\ inflight' = "build"
    /\ UNCHANGED <<configVars, diskVars, tableVars, request, coord, calls, error_writes,
                   has_notified_error, dumped, shard, stream>>

\* A client that dispatches the statement without registering it.
RegisterQuerySkipped(ok) ==
    /\ rpc = "built"
    /\ rpc' = "registered"
    /\ UNCHANGED <<configVars, diskVars, tableVars, request, coord, calls, error_writes,
                   has_notified_error, dumped, raised, inflight, shard, stream>>

\* resharding_worker.registerQuery(coordinator_id, queryToString(alter_query_ptr));
RegisterQuery(ok) ==
    /\ rpc = "built"
    /\ calls' = Target("registerQuery")
    /\ IF ok
       THEN /\ rpc' = "registered"
            /\ coord' = [coord EXCEPT !.query = TRUE]
            /\ UNCHANGED <<raised, inflight>>
       ELSE /\ rpc' = "catch"
            /\ raised' = "registerQuery"
            /\ inflight' = "registerQuery"
            /\ UNCHANGED coord
    /\ UNCHANGED <<configVars, diskVars, tableVars, request, error_writes, has_notified_error,
                   dumped, shard, stream>>

\* ClusterProxy::Query{...}.execute(): one stream per shard of the cluster.
Dispatch(ok) ==
    /\ rpc = "registered"
    /\ calls' = Bump("dispatch")
    /\ IF ok
       THEN /\ rpc' = "dispatched"
            /\ shard' = [s \in 1..TotalShards |-> "running"]
            /\ UNCHANGED <<raised, inflight>>
       ELSE /\ rpc' = "catch"
            /\ raised' = "dispatch"
            /\ inflight' = "dispatch"
            /\ UNCHANGED shard
    /\ UNCHANGED <<configVars, diskVars, tableVars, request, coord, error_writes,
                   has_notified_error, dumped, stream>>

\* The union stream is built over the shard streams; stream.readPrefix();
ReadPrefix ==
    /\ rpc = "dispatched"
    /\ rpc' = "reading"
    /\ stream' = [stream EXCEPT !.opened = TRUE]
    /\ UNCHANGED <<configVars, diskVars, tableVars, request, coord, calls, error_writes,
                   has_notified_error, dumped, raised, inflight, shard>>

\* UnionBlockInputStream::read when shard s has raised: the reading thread is
\* handed the shard's exception, runs the exception callback once and then
\* rethrows the exception.
UnionReadRaises(s) ==
    /\ shard[s] = "failed"
    /\ shard' = [shard EXCEPT ![s] = "reported"]
    /\ rpc' = "callback"
    /\ raised' = "shard"
    /\ inflight' = "shard"

\* while (!stream.isCancelled() && stream.read()) ;
\* The loop ends on cancellation or on the empty block after every shard has
\* finished; a read that receives a shard's exception runs exception_callback
\* and rethrows that exception.
ReadLoop ==
    /\ rpc = "reading"
    /\ IF stream.cancelled
       THEN /\ rpc' = "after_loop"
            /\ UNCHANGED <<raised, inflight, shard>>
       ELSE \/ /\ \A s \in DOMAIN shard : shard[s] = "finished"
               /\ rpc' = "after_loop"
               /\ UNCHANGED <<raised, inflight, shard>>
            \/ \E s \in DOMAIN shard : UnionReadRaises(s)
    /\ UNCHANGED <<configVars, diskVars, tableVars, request, coord, calls, error_writes,
                   has_notified_error, dumped, stream>>

\* exception_callback: setStatus(coordinator_id, STATUS_ERROR), then
\* has_notified_error = true; a throwing setStatus is caught and logged.
ExceptionCallback(ok) ==
    /\ rpc = "callback"
    /\ calls' = Target("setStatus")
    /\ IF ok
       THEN /\ coord' = [coord EXCEPT !.status = "ERROR"]
            /\ error_writes' = error_writes + 1
            /\ has_notified_error' = TRUE
            /\ UNCHANGED inflight
       ELSE /\ inflight' = HandlerCatch(inflight, "setStatus")
            /\ UNCHANGED <<coord, error_writes, has_notified_error>>
    /\ rpc' = "catch"
    /\ UNCHANGED <<configVars, diskVars, tableVars, request, dumped, raised, shard, stream>>

\* A normal return that deletes the coordinator as the failure path does.
ReadSuffixDeletesCoordinator ==
    /\ rpc = "after_loop"
    /\ rpc' = "done"
    /\ stream' = IF stream.cancelled THEN stream ELSE [stream EXCEPT !.closed = TRUE]
    /\ calls' = Target("deleteCoordinator")
    /\ coord' = [coord EXCEPT !.exists = FALSE]
    /\ UNCHANGED <<configVars, diskVars, tableVars, request, error_writes,
                   has_notified_error, dumped, raised, inflight, shard>>

\* A normal return that calls readSuffix whether or not the stream was cancelled.
ReadSuffixAlways ==
    /\ rpc = "after_loop"
    /\ rpc' = "done"
    /\ stream' = [stream EXCEPT !.closed = TRUE]
    /\ UNCHANGED <<configVars, diskVars, tableVars, request, coord, calls, error_writes,
                   has_notified_error, dumped, raised, inflight, shard>>

\* if (!stream.isCancelled()) stream.readSuffix();  and the normal return.
ReadSuffix ==
    /\ rpc = "after_loop"
    /\ rpc' = "done"
    /\ stream' = IF stream.cancelled THEN stream ELSE [stream EXCEPT !.closed = TRUE]
    /\ UNCHANGED <<configVars, diskVars, tableVars, request, coord, calls, error_writes,
                   has_notified_error, dumped, raised, inflight, shard>>

\* handle_exception, first statement.
HandleSetStatus(ok) ==
    /\ rpc = "catch"
    /\ IF HandlerSetsStatus(has_notified_error)
       THEN /\ calls' = Target("setStatus")
            /\ IF ok
               THEN /\ coord' = [coord EXCEPT !.status = "ERROR"]
                    /\ error_writes' = error_writes + 1
                    /\ rpc' = "handler_dump"
                    /\ UNCHANGED inflight
               ELSE /\ inflight' = HandlerCatch(inflight, "setStatus")
                    /\ rpc' = "rethrow"
                    /\ UNCHANGED <<coord, error_writes>>
       ELSE /\ rpc' = "handler_dump"
            /\ UNCHANGED <<coord, calls, error_writes, inflight>>
    /\ UNCHANGED <<configVars, diskVars, tableVars, request, has_notified_error, dumped, raised,
                   shard, stream>>

\* dumped_coordinator_state = resharding_worker.dumpCoordinatorState(coordinator_id);
HandleDump(ok) ==
    /\ rpc = "handler_dump"
    /\ calls' = Target("dumpCoordinatorState")
    /\ IF ok
       THEN /\ dumped' = TRUE
            /\ rpc' = "handler_delete"
            /\ UNCHANGED inflight
       ELSE /\ inflight' = HandlerCatch(inflight, "dumpCoordinatorState")
            /\ rpc' = "rethrow"
            /\ UNCHANGED dumped
    /\ UNCHANGED <<configVars, diskVars, tableVars, request, coord, error_writes,
                   has_notified_error, raised, shard, stream>>

\* resharding_worker.deleteCoordinator(coordinator_id);
HandleDelete(ok) ==
    /\ rpc = "handler_delete"
    /\ calls' = Target("deleteCoordinator")
    /\ IF ok
       THEN /\ coord' = [coord EXCEPT !.exists = FALSE]
            /\ UNCHANGED inflight
       ELSE /\ inflight' = HandlerCatch(inflight, "deleteCoordinator")
            /\ UNCHANGED coord
    /\ rpc' = "rethrow"
    /\ UNCHANGED <<configVars, diskVars, tableVars, request, error_writes, has_notified_error,
                   dumped, raised, shard, stream>>

\* The rest of the catch clause: LOG_ERROR(log, dumped_coordinator_state); throw;
RethrowToCaller ==
    /\ rpc = "rethrow"
    /\ inflight' = Rethrow(inflight)
    /\ rpc' = IF Rethrow(inflight) = "none" THEN "done" ELSE "thrown"
    /\ UNCHANGED <<configVars, diskVars, tableVars, request, coord, calls, error_writes,
                   has_notified_error, dumped, raised, shard, stream>>

(***************************************************************************)
(* The shards executing the dispatched statement, and the caller's         *)
(* cancellation of the union stream.                                       *)
(***************************************************************************)
\* A shard reaches the synchronisation barrier and waits for its peers.
ShardArrive(s) ==
    /\ s \in DOMAIN shard
    /\ shard[s] = "running"
    /\ shard' = [shard EXCEPT ![s] = "waiting"]
    /\ UNCHANGED <<configVars, diskVars, tableVars, request, rpc, coord, calls, error_writes,
                   has_notified_error, dumped, raised, inflight, stream>>

\* A union stream whose worker thread runs the failure callback itself, at the
\* moment the shard's stream raises.
ShardFailRunsCallback(s) ==
    /\ s \in DOMAIN shard
    /\ shard[s] = "running"
    /\ shard' = [shard EXCEPT ![s] = "failed"]
    /\ calls' = Target("setStatus")
    /\ coord' = [coord EXCEPT !.status = "ERROR"]
    /\ error_writes' = error_writes + 1
    /\ has_notified_error' = TRUE
    /\ UNCHANGED <<configVars, diskVars, tableVars, request, rpc, dumped, raised, inflight,
                   stream>>

\* A shard's stream raises while the statement runs.
ShardFail(s) ==
    /\ s \in DOMAIN shard
    /\ shard[s] = "running"
    /\ shard' = [shard EXCEPT ![s] = "failed"]
    /\ UNCHANGED <<configVars, diskVars, tableVars, request, rpc, coord, calls, error_writes,
                   has_notified_error, dumped, raised, inflight, stream>>

\* Every shard is at the barrier: all pass and finish.
BarrierPass ==
    /\ DOMAIN shard # {}
    /\ \A s \in DOMAIN shard : shard[s] = "waiting"
    /\ shard' = [s \in DOMAIN shard |-> "finished"]
    /\ UNCHANGED <<configVars, diskVars, tableVars, request, rpc, coord, calls, error_writes,
                   has_notified_error, dumped, raised, inflight, stream>>

\* A shard waiting at the barrier sees the coordination marked ERROR and gives up.
ShardRelease(s) ==
    /\ s \in DOMAIN shard
    /\ shard[s] = "waiting"
    /\ coord.status = "ERROR"
    /\ shard' = [shard EXCEPT ![s] = "released"]
    /\ UNCHANGED <<configVars, diskVars, tableVars, request, rpc, coord, calls, error_writes,
                   has_notified_error, dumped, raised, inflight, stream>>

\* The query is cancelled while the union stream is being drained.
Cancel ==
    /\ rpc = "reading"
    /\ ~stream.cancelled
    /\ stream' = [stream EXCEPT !.cancelled = TRUE]
    /\ UNCHANGED <<configVars, diskVars, tableVars, request, rpc, coord, calls, error_writes,
                   has_notified_error, dumped, raised, inflight, shard>>

ClientNext ==
    \/ \E a \in BOOLEAN, c \in BOOLEAN, ok \in BOOLEAN, id \in CoordinatorIds :
          ReshardStart(a, c, ok, id)
    \/ \E ok \in BOOLEAN : BuildQuery(ok)
    \/ \E ok \in BOOLEAN : RegisterQuery(ok)
    \/ \E ok \in BOOLEAN : Dispatch(ok)
    \/ ReadPrefix
    \/ ReadLoop
    \/ \E ok \in BOOLEAN : ExceptionCallback(ok)
    \/ ReadSuffix
    \/ \E ok \in BOOLEAN : HandleSetStatus(ok)
    \/ \E ok \in BOOLEAN : HandleDump(ok)
    \/ \E ok \in BOOLEAN : HandleDelete(ok)
    \/ RethrowToCaller

ShardNext ==
    \/ \E s \in DOMAIN shard : ShardArrive(s)
    \/ \E s \in DOMAIN shard : ShardFail(s)
    \/ BarrierPass
    \/ \E s \in DOMAIN shard : ShardRelease(s)
    \/ Cancel

ReshardNext == ClientNext \/ ShardNext

(***************************************************************************)
(* Specifications.                                                         *)
(*                                                                         *)
(* The groups of operations work on disjoint parts of the state: reads and *)
(* describe on result, INSERTs and shutdown on the writers and the         *)
(* directory monitors, alter on the schema, reshardPartitions on its own   *)
(* locals and the coordination record.  Spec runs every operation of the   *)
(* table, one group per behaviour after the constructor; the other         *)
(* specifications run one group each with all its interleavings.  What the *)
(* table's directory holds at startup matters to the directory monitors    *)
(* only: SpecStartup and SpecTable start from every directory content, the *)
(* others from an empty directory.                                         *)
(***************************************************************************)
\* A table directory that holds nothing at startup.
InitBare == Init /\ \A n \in DirNames : fs[n] = "none"

WritersIdle == \A w \in Writers : writers[w].pc = "idle"
MonitorsUntouched == WritersIdle /\ result.op \notin {"shutdown"}
AlterUntouched ==
    /\ alter_pc.pc = "idle"
    /\ result.op \notin {"alter", "altering"}
    /\ columns = metadata
    /\ structure_lock = "free"
ReadsUntouched == result.op \notin {"read", "describe", "chooseShard"}
ReshardUntouched == rpc = "idle"

Next ==
    \/ Construct
    \/ MonitorsUntouched /\ AlterUntouched /\ ReshardUntouched /\ ReadNext
    \/ ReadsUntouched /\ MonitorsUntouched /\ AlterUntouched /\ ReshardUntouched /\ RoutingNext
    \/ ReadsUntouched /\ AlterUntouched /\ ReshardUntouched /\ (WriteNext \/ MonitorNext)
    \/ ReadsUntouched /\ MonitorsUntouched /\ ReshardUntouched /\ AlterNext
    \/ ReadsUntouched /\ MonitorsUntouched /\ AlterUntouched /\ ReshardNext

Spec == InitBare /\ [][Next]_vars

SpecRead == InitBare /\ [][Construct \/ ReadNext]_vars

SpecWrite == InitBare /\ [][Construct \/ WriteNext \/ MonitorNext]_vars

SpecStartup == Init /\ [][Construct \/ Shutdown]_vars

SpecTable == Init /\ [][Construct \/ WriteNext \/ MonitorNext]_vars

\* reshardPartitions() reads the cluster but neither the sharding key nor the
\* data path of the table.
InitResharding ==
    /\ InitBare
    /\ ~sharding_key
    /\ ~data_path

SpecReshard == InitResharding /\ [][Construct \/ ReshardNext]_vars

\* read() and write(): the statements they are given and the ones they send.
SpecStatements == InitBare /\ [][Construct \/ ReadNext \/ WriteNext]_vars

\* The routing of batches alone, for a table with a sharding key and a data
\* path; the weights and the key are inputs of each routing.
InitRouting ==
    /\ InitBare
    /\ cluster = [local |-> 0, remote |-> 1]
    /\ sharding_key
    /\ data_path

SpecRouting == InitRouting /\ [][Construct \/ RoutingNext]_vars

\* alter() and a concurrent reader of the schema.  alter() reads neither the
\* cluster nor the sharding key nor the data path: one configuration is enough.
InitAlter ==
    /\ InitBare
    /\ cluster = [local |-> 1, remote |-> 0]
    /\ ~sharding_key
    /\ ~data_path

SpecAlter == InitAlter /\ [][Construct \/ AlterNext]_vars

\* The client thread runs to the end of the call; a shard that can reach the
\* barrier, pass it or leave it does so.  Nothing obliges a shard to fail or
\* the caller to cancel.
ReshardFairness ==
    /\ WF_vars(ClientNext)
    /\ WF_vars(BarrierPass)
    /\ \A s \in 1..(MaxLocalShards + MaxRemoteShards) :
           WF_vars(ShardArrive(s)) /\ WF_vars(ShardRelease(s))

FairReshard == SpecReshard /\ ReshardFairness

(***************************************************************************)
(* Properties.                                                             *)
(***************************************************************************)
\* The call failed with an exception raised after createCoordinator returned.
FailedAfterCreate ==
    rpc = "thrown" /\ raised \in {"build", "registerQuery", "dispatch", "shard"}

\* C1: whenever reshardPartitions fails after the coordinator was created,
\* deleteCoordinator has been called and a state dump has been captured by
\* the time the exception reaches the caller, whatever setStatus and
\* dumpCoordinatorState did.
C1_CleanupAlwaysDumpsAndDeletes ==
    FailedAfterCreate => (calls.deleteCoordinator >= 1 /\ dumped)

\* C2 as stated: when a shard stream raised during the drain, the status has
\* been written as ERROR exactly once (callback and handler together) when
\* the call returns.
C2_ErrorWrittenExactlyOnce ==
    (rpc = "thrown" /\ raised = "shard") => error_writes = 1

\* C2 as amended: ERROR is written at most once per call, callback and
\* handler together, also when several shard streams fail; after a shard
\* failure it is written exactly once unless setStatus threw both in the
\* callback and in the handler, and then it is not written at all.
C2_ErrorWrittenAtMostOnce ==
    /\ error_writes <= 1
    /\ (rpc = "thrown" /\ raised = "shard") =>
           (error_writes = 1 \/ (error_writes = 0 /\ calls.setStatus = 2))

C2_Witness ==
    /\ rpc = "thrown"
    /\ raised = "shard"
    /\ error_writes = 1
    /\ Cardinality({s \in DOMAIN shard : shard[s] \in {"failed", "reported"}}) >= 2

\* C3: whenever reshardPartitions fails after the coordinator was created, the
\* exception that reaches the caller is the one raised by building the
\* statement, registerQuery, dispatch or the drain: no failure of setStatus,
\* dumpCoordinatorState or deleteCoordinator (in the handler or the callback)
\* replaces it.
C3_OriginalExceptionPropagates ==
    /\ FailedAfterCreate => inflight = raised
    /\ rpc \in {"callback", "catch", "handler_dump", "handler_delete", "rethrow"} =>
           inflight = raised

\* A call that failed in the drain, whose setStatus threw in the callback and
\* whose deleteCoordinator threw in the handler.
C3_Witness ==
    /\ FailedAfterCreate
    /\ raised = "shard"
    /\ calls.setStatus = 2
    /\ calls.deleteCoordinator = 1
    /\ coord.exists

NoSideEffect ==
    /\ calls = NoCalls
    /\ coord = NoCoordinator
    /\ shard = <<>>

\* C4 as stated: a call with the subsystem not started fails with
\* RESHARDING_NO_WORKER, a call with a non-null coordinator fails with
\* RESHARDING_INVALID_PARAMETERS, both without any call on the worker or the
\* cluster.
C4_RejectedBeforeAnySideEffect ==
    rpc # "idle" =>
        /\ ~request.started =>
               (rpc = "thrown" /\ inflight = "RESHARDING_NO_WORKER" /\ NoSideEffect)
        /\ ~request.coordinator_null =>
               (rpc = "thrown" /\ inflight = "RESHARDING_INVALID_PARAMETERS" /\ NoSideEffect)

\* C4 as amended: a call with the subsystem not started fails with
\* RESHARDING_NO_WORKER (also when a coordinator is supplied); a call with a
\* non-null coordinator and the subsystem started fails with
\* RESHARDING_INVALID_PARAMETERS; both without any call on the worker or the
\* cluster.
C4_RejectedInOrder ==
    rpc # "idle" =>
        /\ ~request.started =>
               (rpc = "thrown" /\ inflight = "RESHARDING_NO_WORKER" /\ NoSideEffect)
        /\ (request.started /\ ~request.coordinator_null) =>
               (rpc = "thrown" /\ inflight = "RESHARDING_INVALID_PARAMETERS" /\ NoSideEffect)

C4_Witness ==
    /\ rpc = "thrown"
    /\ request.started
    /\ ~request.coordinator_null
    /\ inflight = "RESHARDING_INVALID_PARAMETERS"

WriteRejected(w) == writers[w].pc = "STORAGE_REQUIRES_PARAMETER"
WriteReturned(w) == writers[w].pc \notin {"idle", "STORAGE_REQUIRES_PARAMETER"}

\* C6 as stated: write() fails when the cluster has two or more shards and no
\* sharding key, and succeeds, returning the stream of the rewritten INSERT,
\* with exactly one shard or with a sharding key.
C6_WriteAllowedByShardsAndKey ==
    \A w \in Writers :
        /\ (TotalShards >= 2 /\ ~sharding_key /\ writers[w].pc # "idle") => WriteRejected(w)
        /\ ((TotalShards = 1 \/ sharding_key) /\ writers[w].pc # "idle") => WriteReturned(w)

\* C6 as amended: write() fails when the cluster has two or more shards and no
\* sharding key; it succeeds, returning the stream of the rewritten INSERT,
\* when a data path is configured and the table has exactly one shard or a
\* sharding key.
C6_WriteAllowedWithDataPath ==
    \A w \in Writers :
        /\ (TotalShards >= 2 /\ ~sharding_key /\ writers[w].pc # "idle") => WriteRejected(w)
        /\ (data_path /\ (TotalShards = 1 \/ sharding_key) /\ writers[w].pc # "idle") =>
               /\ WriteReturned(w)
               /\ writers[w].query.database = remote_database
               /\ writers[w].query.table = remote_table
               /\ writers[w].query.select = "null"

C6_Witness ==
    /\ TotalShards >= 2
    /\ sharding_key
    /\ \E w \in Writers : writers[w].pc = "stream"

\* C7: read() selects Complete exactly when remote * max_parallel_replicas +
\* local = 1 or distributed_group_by_no_merge is set, and WithMergeableState
\* in every other case.
C7_StageSelection ==
    result.op = "read" =>
        IF (cluster.remote * result.mpr) + cluster.local = 1 \/ result.no_merge
        THEN result.stage = "Complete"
        ELSE result.stage = "WithMergeableState"

C7_Witness ==
    /\ result.op = "read"
    /\ result.stage = "Complete"
    /\ ~result.no_merge
    /\ cluster.remote = 1
    /\ cluster.local = 0
    /\ result.mpr = 1

\* C8: the constructor of a table with a data path leaves one active delivery
\* queue for each subdirectory of the table's directory, empty ones included,
\* and none for anything else, before any read or write; it leaves the
\* directory's entries and their pending batches as they were.
C8_StartupAdoptsEverySubdirectory ==
    [][(~constructed /\ constructed' /\ data_path) =>
           /\ directory_monitors' = {n \in DirNames : fs[n] = "dir"}
           /\ \A n \in DirNames :
                  monitors_alive'[n] = IF fs[n] = "dir" THEN 1 ELSE 0
           /\ fs' = fs
           /\ batches' = batches
           /\ \A w \in Writers : writers'[w].pc = "idle"]_vars

\* Two subdirectories found at startup, one of them without a pending batch.
C8_Witness ==
    /\ constructed
    /\ result.op = "construct"
    /\ Cardinality({n \in DirNames : fs[n] = "dir"}) = 2
    /\ Cardinality(directory_monitors) = 2
    /\ \E n \in DirNames : fs[n] = "dir" /\ batches[n] = 0

\* C9: at most one delivery queue (DirectoryMonitor with its sender) is alive
\* for a shard directory name, in every interleaving of the writers and the
\* startup scan.
C9_AtMostOneMonitorPerName ==
    \A n \in DirNames : monitors_alive[n] <= 1

\* C10: after construction write_enabled equals
\* dataPathConfigured /\ (totalShardCount < 2 \/ shardingKeyPresent), whatever
\* operations have run on the table.
C10_WriteEnabledFixed ==
    constructed =>
        (write_enabled <=> (data_path /\ (TotalShards < 2 \/ sharding_key)))

C10_Witness ==
    /\ constructed
    /\ write_enabled
    /\ result.op = "shutdown"
    /\ \E w \in Writers : writers[w].pc = "required"

(***************************************************************************)
(* alter() with a primary-key modification                                 *)
(***************************************************************************)
\* The list holds a command that modifies the primary key.
ModifiesPrimaryKey(params) ==
    \E i \in DOMAIN params : params[i].type = "MODIFY_PRIMARY_KEY"

\* A step in which alter() returns by throwing NOT_IMPLEMENTED.
AlterRejected ==
    /\ alter_pc.pc = "idle"
    /\ result' # result
    /\ result'.op = "alter"
    /\ result'.err = "NOT_IMPLEMENTED"

\* C11: a command list that holds a MODIFY_PRIMARY_KEY command, at any
\* position, never gets past the validation of alter(): the call throws
\* NOT_IMPLEMENTED, and the step that throws leaves the in-memory columns, the
\* persisted metadata and the structure lock as they were (no command applied,
\* alterTable not called).
C11_PrimaryKeyChangeRejectedWhole ==
    [][/\ alter_pc'.pc # "idle" => ~ModifiesPrimaryKey(alter_pc'.params)
       /\ AlterRejected =>
             /\ ModifiesPrimaryKey(result'.params)
             /\ UNCHANGED <<columns, metadata, structure_lock, alter_pc>>]_vars

\* A list whose first command drops a column and whose second modifies the
\* primary key was rejected, after an earlier alter() had added c2.
C11_Witness ==
    /\ result.op = "alter"
    /\ result.err = "NOT_IMPLEMENTED"
    /\ Len(result.params) = 2
    /\ result.params[1].type = "DROP_COLUMN"
    /\ result.params[2].type = "MODIFY_PRIMARY_KEY"
    /\ columns = {"c1", "c2"}
    /\ metadata = {"c1", "c2"}
    /\ alter_pc.pc = "idle"

(***************************************************************************)
(* The statements sent to the shards                                       *)
(***************************************************************************)
\* The two statements have the same parts and agree on all but the named ones.
PreservedExcept(a, b, parts) ==
    /\ DOMAIN a = DOMAIN b
    /\ \A f \in (DOMAIN a) \ parts : a[f] = b[f]

\* C12: rewriting leaves the statement it was given as it was and returns a
\* copy.  The copy of a SELECT differs from it only in the database and table
\* identifiers, which name the remote database and table; the copy of an
\* INSERT carries the remote names and no nested SELECT, every other part kept.
C12_RewriteCopiesAndRenames ==
    /\ result.op = "read" =>
          /\ result.input = result.given
          /\ PreservedExcept(result.given, result.query, {"database", "table"})
          /\ result.query.database = Identifier(remote_database, "Database")
          /\ result.query.table = Identifier(remote_table, "Table")
    /\ \A w \in Writers :
          writers[w].pc = "stream" =>
             /\ writers[w].input = writers[w].given
             /\ PreservedExcept(writers[w].given, writers[w].query,
                                {"database", "table", "select"})
             /\ writers[w].query.database = remote_database
             /\ writers[w].query.table = remote_table
             /\ writers[w].query.select = "null"

\* A SELECT with a WHERE clause and no database written has been read, and an
\* INSERT ... SELECT has been turned into an output stream.
C12_Witness ==
    /\ result.op = "read"
    /\ result.given.where = "x > 1"
    /\ result.given.database = NullIdentifier
    /\ \E w \in Writers :
          /\ writers[w].pc = "stream"
          /\ writers[w].given.select = "subquery"

(***************************************************************************)
(* The shard of a batch                                                    *)
(***************************************************************************)
\* The key value of the routed batch reduced modulo the total weight lies in
\* the cumulative weight range of shard s.
InWeightRange(s) ==
    LET slot == result.key % SumWeights(result.weights, Len(result.weights))
    IN  /\ SumWeights(result.weights, s) <= slot
        /\ slot < SumWeights(result.weights, s + 1)

\* The shard chosen is the one shard whose cumulative weight range holds the
\* reduced key value.
ChosenByWeightRange ==
    result.op = "chooseShard" =>
        \A s \in 0..(Len(result.weights) - 1) : InWeightRange(s) <=> s = result.shard

\* With weights [1, 1, 2] the reduced key values 0, 1, 2, 3 go to the shards
\* named by expected.
ScenarioMapsTo(expected) ==
    (result.op = "chooseShard" /\ result.weights = <<1, 1, 2>>) =>
        result.shard = expected[(result.key % 4) + 1]

\* C13 as stated: the batch goes to the shard whose cumulative weight range
\* holds the key value modulo the total weight, and with weights [1, 1, 2]
\* the values 0, 1, 2, 3 go to shards 0, 1, 2, 0.
C13_ScenarioEndsOnShardZero ==
    ChosenByWeightRange /\ ScenarioMapsTo(<<0, 1, 2, 0>>)

\* C13: the batch goes to the one shard whose cumulative weight range holds
\* the key value modulo the total weight (so the shard is fixed by the key
\* and the weights), and with weights [1, 1, 2] the values 0, 1, 2, 3 go to
\* shards 0, 1, 2, 2.
C13_ScenarioEndsOnShardTwo ==
    ChosenByWeightRange /\ ScenarioMapsTo(<<0, 1, 2, 2>>)

\* A batch whose key value is 3 modulo 4, taken past one turn of the total
\* weight, has been routed over the weights [1, 1, 2].
C13_Witness ==
    /\ result.op = "chooseShard"
    /\ result.weights = <<1, 1, 2>>
    /\ result.key = 7
    /\ result.shard = 2

(***************************************************************************)
(* The order of the client's steps                                         *)
(***************************************************************************)
\* The step of the state machine the client is in: 0 Idle, 1 CoordinatorCreated,
\* 2 QueryRegistered, 3 Dispatched, 4 Finalized, 5 failed (the call has thrown
\* or is on its way to throwing).
ClientStep ==
    CASE rpc = "idle" -> 0
      [] rpc \in {"try", "built"} -> 1
      [] rpc = "registered" -> 2
      [] rpc \in {"dispatched", "reading", "after_loop"} -> 3
      [] rpc = "done" -> 4
      [] OTHER -> 5

\* The client moves to the next step or fails; a failed call stays failed.
StepsInOrder ==
    [][IF ClientStep = 5 THEN ClientStep' = 5
       ELSE ClientStep' \in {ClientStep, ClientStep + 1, 5}]_vars

\* What has happened by each step, and the one coordinator id of the call.
StepsHaveTheirEffects ==
    /\ calls.createCoordinator <= 1
    /\ calls.registerQuery <= 1
    /\ calls.dispatch <= 1
    /\ rpc = "built" => (calls.createCoordinator = 1 /\ coord.exists)
    /\ calls.registerQuery = 1 => calls.createCoordinator = 1
    /\ calls.dispatch = 1 => (calls.registerQuery = 1 /\ coord.query)
    /\ shard # <<>> => (calls.dispatch = 1 /\ coord.query)
    /\ calls.createCoordinator = 0 => coord = NoCoordinator
    /\ calls.targets \subseteq {coord.id}
    /\ calls.targets # {} => (coord.id \in CoordinatorIds /\ calls.createCoordinator = 1)

\* C14: the client goes through Idle, CoordinatorCreated, QueryRegistered,
\* Dispatched, Finalized one step at a time and in this order, a failing call
\* leaving the sequence at the step that failed; the coordinator is created
\* once and before the statement is built, the statement is registered once
\* and before any shard receives it, and every registerQuery, setStatus, dump
\* and delete is passed the id of the coordinator this call created.
C14_StepsInOrderOneCoordinator ==
    StepsInOrder /\ []StepsHaveTheirEffects

\* A call has been through every step up to Finalized; every call it made on
\* the worker was passed the id of its coordinator.
C14_Witness ==
    /\ rpc = "done"
    /\ stream.closed
    /\ coord.id = 2
    /\ calls.createCoordinator = 1
    /\ calls.registerQuery = 1
    /\ calls.dispatch = 1
    /\ calls.targets = {2}

(***************************************************************************)
(* The normal return of reshardPartitions                                  *)
(***************************************************************************)
\* C15: when reshardPartitions returns without an exception the client has
\* made no setStatus, dumpCoordinatorState or deleteCoordinator call, and the
\* coordinator record it created still exists, with the status and the
\* registered statement it had.
C15_SuccessLeavesCoordinator ==
    rpc = "done" =>
        /\ calls.setStatus = 0
        /\ calls.dumpCoordinatorState = 0
        /\ calls.deleteCoordinator = 0
        /\ error_writes = 0
        /\ ~dumped
        /\ coord.exists
        /\ coord.status # "ERROR"
        /\ coord.query

\* The call has returned normally after every shard finished and the stream
\* was closed.
C15_Witness ==
    /\ rpc = "done"
    /\ inflight = "none"
    /\ stream.closed
    /\ \A s \in DOMAIN shard : shard[s] = "finished"
    /\ coord.exists

\* C16 as stated: a call that reaches dispatch and does not fail has opened
\* the union stream and closed it, after end of stream and after cancellation alike.
C16_ClosedAlsoWhenCancelled ==
    rpc = "done" => (stream.opened /\ stream.closed)

\* C16: a call that reaches dispatch and does not fail has opened the union
\* stream (readPrefix) and read it until the end of the stream or until it was
\* cancelled; after the end of the stream, every shard having finished, it has
\* closed the stream (readSuffix), and after a cancellation it has returned
\* without closing it.
C16_ClosedUnlessCancelled ==
    /\ rpc \in {"reading", "after_loop", "done"} => stream.opened
    /\ stream.closed => rpc = "done"
    /\ rpc = "done" =>
          IF stream.cancelled
          THEN ~stream.closed
          ELSE /\ stream.closed
               /\ \A s \in DOMAIN shard : shard[s] = "finished"

\* A cancelled call has returned normally; a shard had not finished.
C16_Witness ==
    /\ rpc = "done"
    /\ stream.opened
    /\ stream.cancelled
    /\ \E s \in DOMAIN shard : shard[s] \in {"running", "waiting"}

(***************************************************************************)
(* Directory monitors after shutdown()                                     *)
(***************************************************************************)
\* C17: once shutdown() has been called the map of directory monitors is
\* empty and no directory monitor (with its sender thread) is alive, whatever
\* the output streams do afterwards.
C17_NoQueueAfterShutdown ==
    result.op = "shutdown" =>
        /\ directory_monitors = {}
        /\ \A n \in DirNames : monitors_alive[n] = 0

(***************************************************************************)
(* alter() and the structure lock                                          *)
(***************************************************************************)
\* C18 as stated: alter() holds the structure lock from the validation of the
\* command list on, so that once the list has been checked the lock is held
\* until alter() returns.
C18_LockHeldFromValidation ==
    alter_pc.pc \in {"validated", "locked", "applied"} => structure_lock = "alter"

\* The schema changes, in memory or on disk, only in steps that start and, but
\* for the last one, end with alter() holding the lock.
ModifiedUnderLock ==
    [][(columns' # columns \/ metadata' # metadata) =>
          /\ structure_lock = "alter"
          /\ (structure_lock' = "alter" \/ alter_pc'.pc = "idle")]_vars

\* C18: alter() checks the command list for a primary-key modification before
\* it takes the structure lock, and holds the lock for the whole of applying
\* and persisting: every modification of the schema happens while alter()
\* holds the lock, and a reader that holds the structure lock never finds
\* alter() part-way through the list or between applying and persisting.
C18_LockHeldWhileApplying ==
    /\ ModifiedUnderLock
    /\ [](alter_pc.pc = "validated" => structure_lock # "alter")
    /\ [](alter_pc.pc \in {"locked", "applied"} <=> structure_lock = "alter")
    /\ [](structure_lock = "read" =>
             (alter_pc.pc \in {"idle", "validated"} /\ columns = metadata))

\* alter() holds the lock with the first of two commands applied and the
\* second still to come: the in-memory schema is half-updated.
C18_Witness ==
    /\ structure_lock = "alter"
    /\ alter_pc.pc = "locked"
    /\ Len(alter_pc.params) = 1
    /\ columns # metadata

DeleteCalled == calls'.deleteCoordinator > calls.deleteCoordinator

\* A step in which dumpCoordinatorState returns the dump.
DumpTaken == dumped' /\ ~dumped

\* C20: the client calls deleteCoordinator only for a coordinator whose status
\* an earlier setStatus call of this client, in the failure callback or in the
\* cleanup handler, has set to ERROR, and only after a state dump that was
\* itself taken after that status write.
C20_DeletedOnlyAfterErrorAndDump ==
    /\ [][DumpTaken => (error_writes = 1 /\ coord.status = "ERROR")]_vars
    /\ [][DeleteCalled =>
             (dumped /\ error_writes = 1 /\ coord.status = "ERROR" /\ coord.exists)]_vars
    /\ [](has_notified_error => error_writes = 1)
    /\ [](calls.deleteCoordinator >= 1 =>
             (coord.status = "ERROR" /\ error_writes = 1 /\ dumped))

\* The coordinator has been deleted after the failure callback, not the
\* handler, wrote the ERROR status.
C20_Witness ==
    /\ calls.deleteCoordinator = 1
    /\ ~coord.exists
    /\ has_notified_error
    /\ calls.setStatus = 1
    /\ dumped
====
